---- MODULE Spec2Model ----
(***************************************************************************)
(* Ichimoku Cloud indicator of KLineChart:                                 *)
(*   src/src/extension/indicator/ichimokuCloud.ts                          *)
(*                                                                         *)
(* calc  : bars + calcParams -> array of partial records                   *)
(* draw  : scan of the visible range of that array, filling cloud polygons *)
(*                                                                         *)
(* Arrays are functions on 0..n-1, as in the source.  An optional field    *)
(* (tenkan?: number) is <<>> when undefined and <<v>> when it holds v.     *)
(* Prices are integers counted in quarters of a price unit (10 is 40, 7.5  *)
(* is 30), so that the two halvings of calc are exact, as they are on the  *)
(* doubles of the source for such values.                                  *)
(***************************************************************************)
EXTENDS Integers, Sequences, FiniteSets

VARIABLES
  dataList,          \* KLineData[]: the bars handed to calc
  calcParams,        \* indicator.calcParams: <<tenkan, kijun, senkouB, displacement>>
  pc,                \* "start" | "calc" | "calcDone" | "calcThrew" | "draw" | "drawDone"
  ci,                \* index of the forEach callback that runs next
  result,            \* calc's result array (indicator.result once returned)
  thrown,            \* name of the error calc threw, "" if none
  visibleRange,      \* chart.getVisibleRange(): [from, to]
  di,                \* i of draw's for loop
  points1,           \* draw: upper edge of the open polygon
  points2,           \* draw: lower edge of the open polygon
  currentIsBullish,  \* draw: <<>> for null, <<TRUE>> / <<FALSE>>
  calls,             \* every drawCloudPolygon invocation, in order
  filled             \* every polygon ctx.fill() painted, in order

vars == <<dataList, calcParams, pc, ci, result, thrown, visibleRange, di,
          points1, points2, currentIsBullish, calls, filled>>

calcVars == <<dataList, calcParams>>
drawVars == <<visibleRange, di, points1, points2, currentIsBullish, calls, filled>>

----------------------------------------------------------------------------
(* Bounds of the model *)

MaxLen == 4      \* at most this many bars
MaxParam == 2    \* periods and displacement range up to this value

----------------------------------------------------------------------------
(* Inputs *)

Prices == {0, 8}

BarKinds ==
  { b \in [high : Prices, low : Prices, close : Prices] :
      b.low <= b.high /\ b.close \in {b.low, b.high} }

BarLists == UNION { [0..(n - 1) -> BarKinds] : n \in 0..MaxLen }

\* draw reads senkou1 and senkou2 only, and neither depends on close
CloudBarKinds == { b \in BarKinds : b.close = b.high }

CloudBarLists == UNION { [0..(n - 1) -> CloudBarKinds] : n \in 0..MaxLen }

ValidParams == (1..MaxParam) \X (1..MaxParam) \X (1..MaxParam) \X (1..MaxParam)

AnyParam == (-1)..MaxParam

InvalidParams ==
  { p \in AnyParam \X AnyParam \X AnyParam \X AnyParam :
      \E k \in 1..4 : p[k] <= 0 }

length(a) == Cardinality(DOMAIN a)

Max(a, b) == IF a >= b THEN a ELSE b

----------------------------------------------------------------------------
(* interface IchimokuCloud: all five fields optional *)

EmptyRecord ==
  [tenkan |-> <<>>, kijun |-> <<>>, chikou |-> <<>>, senkou1 |-> <<>>, senkou2 |-> <<>>]

Fields == {"tenkan", "kijun", "chikou", "senkou1", "senkou2"}

----------------------------------------------------------------------------
(* getHighest / getLowest *)

RECURSIVE scanHighest(_, _, _, _)
scanHighest(list, i, endIndex, highest) ==
  IF i > endIndex THEN highest
  ELSE scanHighest(list, i + 1, endIndex,
                   IF list[i].high > highest THEN list[i].high ELSE highest)

getHighestSkipLast(list, endIndex, period) ==
  LET startIndex == Max(0, endIndex - period + 1)
  IN  scanHighest(list, startIndex + 1, endIndex - 1, list[startIndex].high)

getHighest(list, endIndex, period) ==
  LET startIndex == Max(0, endIndex - period + 1)
  IN  scanHighest(list, startIndex + 1, endIndex, list[startIndex].high)

RECURSIVE scanLowest(_, _, _, _)
scanLowest(list, i, endIndex, lowest) ==
  IF i > endIndex THEN lowest
  ELSE scanLowest(list, i + 1, endIndex,
                  IF list[i].low < lowest THEN list[i].low ELSE lowest)

getLowest(list, endIndex, period) ==
  LET startIndex == Max(0, endIndex - period + 1)
  IN  scanLowest(list, startIndex + 1, endIndex, list[startIndex].low)

\* dataList[startIndex] is undefined: reading .high / .low of it is a TypeError
extremaThrow(list, endIndex, period) ==
  Max(0, endIndex - period + 1) \notin DOMAIN list

\* (getHighest(...) + getLowest(...)) / 2
midpoint(list, endIndex, period) ==
  (getHighest(list, endIndex, period) + getLowest(list, endIndex, period)) \div 2

----------------------------------------------------------------------------
(* calc.  A callback of forEach is a chain of five steps over             *)
(* st = [res |-> the result array, threw |-> a TypeError was raised].      *)

resultLengthNoDisplacement(list, displacement) == length(list)

resultLength(list, displacement) == length(list) + displacement

\* for (let i = 0; i < resultLength; i++) result.push({})
newResult(list, displacement) ==
  [j \in 0..(resultLength(list, displacement) - 1) |-> EmptyRecord]

\* result[j].f = v; result[j] undefined is a TypeError
writeField(st, j, f, v) ==
  IF st.threw THEN st
  ELSE IF j \notin DOMAIN st.res THEN [st EXCEPT !.threw = TRUE]
  ELSE [st EXCEPT !.res[j][f] = <<v>>]

stepTenkan(st, list, i, tenkanPeriod) ==
  IF st.threw \/ ~(i >= tenkanPeriod - 1) THEN st
  ELSE IF extremaThrow(list, i, tenkanPeriod) THEN [st EXCEPT !.threw = TRUE]
  ELSE writeField(st, i, "tenkan", midpoint(list, i, tenkanPeriod))

stepKijunLate(st, list, i, kijunPeriod) ==
  IF st.threw \/ ~(i >= kijunPeriod) THEN st
  ELSE IF extremaThrow(list, i, kijunPeriod) THEN [st EXCEPT !.threw = TRUE]
  ELSE writeField(st, i, "kijun", midpoint(list, i, kijunPeriod))

stepKijun(st, list, i, kijunPeriod) ==
  IF st.threw \/ ~(i >= kijunPeriod - 1) THEN st
  ELSE IF extremaThrow(list, i, kijunPeriod) THEN [st EXCEPT !.threw = TRUE]
  ELSE writeField(st, i, "kijun", midpoint(list, i, kijunPeriod))

stepSenkouAEither(st, i, displacement) ==
  IF st.threw THEN st
  ELSE IF i \notin DOMAIN st.res THEN [st EXCEPT !.threw = TRUE]
  ELSE LET tenkanVal == st.res[i].tenkan
           kijunVal == st.res[i].kijun
           t == IF tenkanVal # <<>> THEN tenkanVal[1] ELSE 0
           k == IF kijunVal # <<>> THEN kijunVal[1] ELSE 0
       IN  IF tenkanVal # <<>> \/ kijunVal # <<>>
           THEN writeField(st, i + displacement, "senkou1", (t + k) \div 2)
           ELSE st

stepSenkouA(st, i, displacement) ==
  IF st.threw THEN st
  ELSE IF i \notin DOMAIN st.res THEN [st EXCEPT !.threw = TRUE]
  ELSE LET tenkanVal == st.res[i].tenkan
           kijunVal == st.res[i].kijun
       IN  IF tenkanVal # <<>> /\ kijunVal # <<>>
           THEN writeField(st, i + displacement, "senkou1",
                           (tenkanVal[1] + kijunVal[1]) \div 2)
           ELSE st

stepSenkouBUnshifted(st, list, i, senkouBPeriod, displacement) ==
  IF st.threw \/ ~(i >= senkouBPeriod - 1) THEN st
  ELSE IF extremaThrow(list, i, senkouBPeriod) THEN [st EXCEPT !.threw = TRUE]
  ELSE writeField(st, i, "senkou2", midpoint(list, i, senkouBPeriod))

stepSenkouB(st, list, i, senkouBPeriod, displacement) ==
  IF st.threw \/ ~(i >= senkouBPeriod - 1) THEN st
  ELSE IF extremaThrow(list, i, senkouBPeriod) THEN [st EXCEPT !.threw = TRUE]
  ELSE writeField(st, i + displacement, "senkou2", midpoint(list, i, senkouBPeriod))

stepChikouStrict(st, list, i, displacement) ==
  IF st.threw \/ ~(i > displacement) THEN st
  ELSE writeField(st, i - displacement, "chikou", list[i].close)

stepChikou(st, list, i, displacement) ==
  IF st.threw \/ ~(i >= displacement) THEN st
  ELSE writeField(st, i - displacement, "chikou", list[i].close)

calcCallback(res, list, params, i) ==
  LET s0 == [res |-> res, threw |-> FALSE]
      s1 == stepTenkan(s0, list, i, params[1])
      s2 == stepKijun(s1, list, i, params[2])
      s3 == stepSenkouA(s2, i, params[4])
      s4 == stepSenkouB(s3, list, i, params[3], params[4])
  IN  stepChikou(s4, list, i, params[4])

----------------------------------------------------------------------------
(* Actions of calc *)

NoDraw ==
  /\ visibleRange = [from |-> 0, to |-> 0]
  /\ di = 0
  /\ points1 = <<>>
  /\ points2 = <<>>
  /\ currentIsBullish = <<>>
  /\ calls = <<>>
  /\ filled = <<>>

InitWith(lists, paramSet) ==
  /\ dataList \in lists
  /\ calcParams \in paramSet
  /\ pc = "start"
  /\ ci = 0
  /\ result = <<>>
  /\ thrown = ""
  /\ NoDraw

CalcBegin ==
  /\ pc = "start"
  /\ result' = newResult(dataList, calcParams[4])
  /\ ci' = 0
  /\ pc' = "calc"
  /\ UNCHANGED <<calcVars, thrown, drawVars>>

CalcIter ==
  /\ pc = "calc"
  /\ ci < length(dataList)
  /\ LET st == calcCallback(result, dataList, calcParams, ci)
     IN  /\ result' = st.res
         /\ IF st.threw
            THEN /\ pc' = "calcThrew"
                 /\ thrown' = "TypeError"
                 /\ ci' = ci
            ELSE /\ pc' = "calc"
                 /\ thrown' = thrown
                 /\ ci' = ci + 1
  /\ UNCHANGED <<calcVars, drawVars>>

CalcReturn ==
  /\ pc = "calc"
  /\ ci >= length(dataList)
  /\ pc' = "calcDone"
  /\ UNCHANGED <<calcVars, ci, result, thrown, drawVars>>

NextCalc == CalcBegin \/ CalcIter \/ CalcReturn

InitCalc == InitWith(BarLists, ValidParams)

\* calc alone, on valid parameters
SpecCalc == InitCalc /\ [][NextCalc]_vars

Init == InitWith(CloudBarLists, ValidParams)

----------------------------------------------------------------------------
(* draw *)

bullishColor == "rgba(38, 166, 154, 0.3)"
bearishColor == "rgba(239, 83, 80, 0.3)"

cloudColor(isBullish) == IF isBullish THEN bullishColor ELSE bearishColor

\* xAxis.convertToPixel(i): the host's index-to-pixel map, one column per index
xConvertToPixel(i) == 6 * i + 3

\* yAxis.convertToPixel(v): the host's price-to-pixel map, larger prices higher up
yConvertToPixel(v) == 100 - 10 * v

\* result[i]?.f
optionalField(res, i, f) == IF i \in DOMAIN res THEN res[i][f] ELSE <<>>

RECURSIVE reversed(_)
reversed(s) == IF s = <<>> THEN <<>> ELSE Append(reversed(Tail(s)), Head(s))

\* moveTo(points1[0]); lineTo(points1[1..]); lineTo(points2 in reverse)
cloudPath(p1, p2) == p1 \o reversed(p2)

drawCloudPolygonMinThree(canvas, p1, p2, color) ==
  IF Len(p1) < 3 THEN canvas
  ELSE Append(canvas, [path |-> cloudPath(p1, p2), color |-> color])

\* the canvas after drawCloudPolygon(ctx, p1, p2, color)
drawCloudPolygon(canvas, p1, p2, color) ==
  IF Len(p1) < 2 THEN canvas
  ELSE Append(canvas, [path |-> cloudPath(p1, p2), color |-> color])

lastPointSeedEmpty(points) == <<>>

\* points.length > 0 ? [points[points.length - 1]] : []
lastPointSeed(points) ==
  IF Len(points) > 0 THEN <<points[Len(points)]>> ELSE <<>>

drawRemainingDropped(canvas, p1, p2, flag) == canvas

\* the final flush after the loop
drawRemaining(canvas, p1, p2, flag) ==
  IF Len(p1) > 1 /\ flag # <<>>
  THEN drawCloudPolygon(canvas, p1, p2, cloudColor(flag[1]))
  ELSE canvas

VisibleRanges(res) ==
  { [from |-> f, to |-> t] : f \in 0..length(res), t \in 0..(length(res) + 1) }

DrawBegin ==
  /\ pc = "calcDone"
  /\ \E r \in VisibleRanges(result) :
       /\ r.from <= r.to
       /\ visibleRange' = r
       /\ di' = r.from
  /\ points1' = <<>>
  /\ points2' = <<>>
  /\ currentIsBullish' = <<>>
  /\ calls' = <<>>
  /\ filled' = <<>>
  /\ pc' = "draw"
  /\ UNCHANGED <<calcVars, ci, result, thrown>>

DrawIterGapFlush ==
  /\ pc = "draw"
  /\ di < visibleRange.to
  /\ LET senkou1Val == optionalField(result, di, "senkou1")
         senkou2Val == optionalField(result, di, "senkou2")
     IN  IF senkou1Val # <<>> /\ senkou2Val # <<>>
         THEN LET x == xConvertToPixel(di)
                  y1 == yConvertToPixel(senkou1Val[1])
                  y2 == yConvertToPixel(senkou2Val[1])
                  isBullish == senkou1Val[1] >= senkou2Val[1]
                  changed == currentIsBullish # <<>> /\ currentIsBullish[1] # isBullish
              IN  /\ calls' = IF changed
                                THEN Append(calls, [points1 |-> points1, points2 |-> points2,
                                                    color |-> cloudColor(currentIsBullish[1])])
                                ELSE calls
                  /\ filled' = IF changed
                                 THEN drawCloudPolygon(filled, points1, points2,
                                                       cloudColor(currentIsBullish[1]))
                                 ELSE filled
                  /\ points1' = Append(IF changed THEN lastPointSeed(points1) ELSE points1,
                                       [x |-> x, y |-> y1])
                  /\ points2' = Append(IF changed THEN lastPointSeed(points2) ELSE points2,
                                       [x |-> x, y |-> y2])
                  /\ currentIsBullish' = <<isBullish>>
         ELSE /\ calls' = IF currentIsBullish # <<>>
                            THEN Append(calls, [points1 |-> points1, points2 |-> points2,
                                                color |-> cloudColor(currentIsBullish[1])])
                            ELSE calls
              /\ filled' = IF currentIsBullish # <<>>
                             THEN drawCloudPolygon(filled, points1, points2,
                                                   cloudColor(currentIsBullish[1]))
                             ELSE filled
              /\ points1' = <<>>
              /\ points2' = <<>>
              /\ currentIsBullish' = <<>>
  /\ di' = di + 1
  /\ UNCHANGED <<calcVars, pc, ci, result, thrown, visibleRange>>

DrawIter ==
  /\ pc = "draw"
  /\ di < visibleRange.to
  /\ LET senkou1Val == optionalField(result, di, "senkou1")
         senkou2Val == optionalField(result, di, "senkou2")
     IN  IF senkou1Val # <<>> /\ senkou2Val # <<>>
         THEN LET x == xConvertToPixel(di)
                  y1 == yConvertToPixel(senkou1Val[1])
                  y2 == yConvertToPixel(senkou2Val[1])
                  isBullish == senkou1Val[1] >= senkou2Val[1]
                  changed == currentIsBullish # <<>> /\ currentIsBullish[1] # isBullish
              IN  /\ calls' = IF changed
                                THEN Append(calls, [points1 |-> points1, points2 |-> points2,
                                                    color |-> cloudColor(currentIsBullish[1])])
                                ELSE calls
                  /\ filled' = IF changed
                                 THEN drawCloudPolygon(filled, points1, points2,
                                                       cloudColor(currentIsBullish[1]))
                                 ELSE filled
                  /\ points1' = Append(IF changed THEN lastPointSeed(points1) ELSE points1,
                                       [x |-> x, y |-> y1])
                  /\ points2' = Append(IF changed THEN lastPointSeed(points2) ELSE points2,
                                       [x |-> x, y |-> y2])
                  /\ currentIsBullish' = <<isBullish>>
         ELSE UNCHANGED <<points1, points2, currentIsBullish, calls, filled>>
  /\ di' = di + 1
  /\ UNCHANGED <<calcVars, pc, ci, result, thrown, visibleRange>>

DrawEnd ==
  /\ pc = "draw"
  /\ di >= visibleRange.to
  /\ filled' = drawRemaining(filled, points1, points2, currentIsBullish)
  /\ calls' = IF Len(points1) > 1 /\ currentIsBullish # <<>>
                THEN Append(calls, [points1 |-> points1, points2 |-> points2,
                                    color |-> cloudColor(currentIsBullish[1])])
                ELSE calls
  /\ pc' = "drawDone"
  /\ UNCHANGED <<calcVars, ci, result, thrown, visibleRange, di, points1, points2,
                 currentIsBullish>>

NextDraw == DrawBegin \/ DrawIter \/ DrawEnd

Next == CalcBegin \/ CalcIter \/ CalcReturn \/ DrawBegin \/ DrawIter \/ DrawEnd

Spec == Init /\ [][Next]_vars

\* calc alone, on parameter tuples with a zero or negative entry
InitInvalid == InitWith(BarLists, InvalidParams)

SpecInvalid == InitInvalid /\ [][NextCalc]_vars

\* draw alone, on any array of the declared type IchimokuCloud[]: each record may
\* lack either span, so present indices need not be contiguous
CloudRecords ==
  { [EmptyRecord EXCEPT !.senkou1 = a, !.senkou2 = b] :
      a \in {<<>>, <<0>>, <<4>>}, b \in {<<>>, <<2>>} }

CloudResults == UNION { [0..(n - 1) -> CloudRecords] : n \in 0..MaxLen }

InitGaps ==
  /\ dataList = <<>>
  /\ calcParams = <<1, 1, 1, 1>>
  /\ pc = "calcDone"
  /\ ci = 0
  /\ result \in CloudResults
  /\ thrown = ""
  /\ NoDraw

SpecGaps == InitGaps /\ [][NextDraw]_vars

----------------------------------------------------------------------------
(* Properties of calc *)

L == length(dataList)
tenkanPeriod == calcParams[1]
kijunPeriod == calcParams[2]
senkouBPeriod == calcParams[3]
displacement == calcParams[4]

field(j, f) == optionalField(result, j, f)

present(j, f) == field(j, f) # <<>>

\* the largest high / smallest low among the bars lo..hi, as sets
windowHigh(lo, hi) ==
  CHOOSE m \in { dataList[k].high : k \in lo..hi } :
    \A k \in lo..hi : dataList[k].high <= m

windowLow(lo, hi) ==
  CHOOSE m \in { dataList[k].low : k \in lo..hi } :
    \A k \in lo..hi : dataList[k].low >= m

windowMid(i, period) ==
  (windowHigh(i - period + 1, i) + windowLow(i - period + 1, i)) \div 2

\* C1: for positive parameters calc does not throw and its result holds exactly
\* L + displacement records, one at every index 0..L+displacement-1, the array
\* having that size throughout the loop; with no bars all of them are empty.
C1_ResultLength ==
  /\ pc # "calcThrew"
  /\ pc \in {"calc", "calcDone"} =>
       /\ DOMAIN result = 0..(L + displacement - 1)
       /\ \A j \in DOMAIN result : DOMAIN result[j] = Fields
  /\ (pc = "calcDone" /\ L = 0) =>
       /\ length(result) = displacement
       /\ \A j \in DOMAIN result : result[j] = EmptyRecord

C1_Witness ==
  /\ pc = "calcDone"
  /\ L = 3
  /\ displacement = 2
  /\ length(result) = 5
  /\ result[4] # EmptyRecord

\* C2: at every input index i, tenkan is present iff i >= tenkanPeriod - 1 and is
\* then the midpoint of the highest high and lowest low of bars
\* i-tenkanPeriod+1..i; the same for kijun with kijunPeriod; both are absent at
\* every output index >= L.
C2_TenkanKijun ==
  pc = "calcDone" =>
    /\ \A i \in 0..(L - 1) :
         /\ present(i, "tenkan") <=> i >= tenkanPeriod - 1
         /\ present(i, "tenkan") => result[i].tenkan = <<windowMid(i, tenkanPeriod)>>
         /\ present(i, "kijun") <=> i >= kijunPeriod - 1
         /\ present(i, "kijun") => result[i].kijun = <<windowMid(i, kijunPeriod)>>
    /\ \A j \in DOMAIN result :
         j >= L => ~present(j, "tenkan") /\ ~present(j, "kijun")

C2_Witness ==
  /\ pc = "calcDone"
  /\ tenkanPeriod = 2
  /\ kijunPeriod = 1
  /\ ~present(0, "tenkan")
  /\ present(0, "kijun")
  /\ \E i \in 1..(L - 1) :
       /\ dataList[i - 1].high > dataList[i].high
       /\ field(i, "tenkan") = <<4>>
       /\ field(i, "kijun") = <<0>>

\* C3: for every input index i, senkou1 at i + displacement is present iff both
\* tenkan[i] and kijun[i] are present, and is then their average.
C3_SpanA ==
  pc = "calcDone" =>
    \A i \in 0..(L - 1) :
      /\ present(i + displacement, "senkou1")
           <=> (present(i, "tenkan") /\ present(i, "kijun"))
      /\ present(i + displacement, "senkou1") =>
           result[i + displacement].senkou1
             = <<(result[i].tenkan[1] + result[i].kijun[1]) \div 2>>

C3_Witness ==
  /\ pc = "calcDone"
  /\ present(0, "tenkan") /\ ~present(0, "kijun")
  /\ ~present(displacement, "senkou1")
  /\ \E i \in 1..(L - 1) :
       /\ field(i, "tenkan") = <<0>>
       /\ field(i, "kijun") = <<4>>
       /\ field(i + displacement, "senkou1") = <<2>>

\* C4: for every input index i, senkou2 at i + displacement is present iff
\* i >= senkouBPeriod - 1, and is then the midpoint over bars
\* i-senkouBPeriod+1..i, whether or not tenkan[i] and kijun[i] are present.
C4_SpanB ==
  pc = "calcDone" =>
    \A i \in 0..(L - 1) :
      /\ present(i + displacement, "senkou2") <=> i >= senkouBPeriod - 1
      /\ present(i + displacement, "senkou2") =>
           result[i + displacement].senkou2 = <<windowMid(i, senkouBPeriod)>>

C4_Witness ==
  /\ pc = "calcDone"
  /\ senkouBPeriod = 1
  /\ ~present(0, "tenkan") /\ ~present(0, "kijun")
  /\ field(displacement, "senkou2") = <<4>>
  /\ ~present(displacement, "senkou1")

\* C5: chikou at output index j is present iff j + displacement < L, and is then
\* the close of bar j + displacement, whatever the periods.
C5_Chikou ==
  pc = "calcDone" =>
    \A j \in DOMAIN result :
      /\ present(j, "chikou") <=> j + displacement < L
      /\ present(j, "chikou") => result[j].chikou = <<dataList[j + displacement].close>>

C5_Witness ==
  /\ pc = "calcDone"
  /\ L = 4
  /\ displacement = 2
  /\ ~present(0, "tenkan") /\ ~present(0, "kijun")
  /\ dataList[2].close # dataList[2].high
  /\ dataList[2].close # dataList[0].close
  /\ field(0, "chikou") = <<dataList[2].close>>
  /\ present(1, "chikou")
  /\ ~present(2, "chikou")

\* C6: with a zero or negative parameter calc fails with InvalidParameter before
\* computing anything: it returns no result, writes no field, throws nothing else.
C6_FailsFast ==
  (\E k \in 1..4 : calcParams[k] <= 0) =>
    /\ pc # "calcDone"
    /\ thrown \in {"", "InvalidParameter"}
    /\ \A j \in DOMAIN result : result[j] = EmptyRecord

----------------------------------------------------------------------------
(* Properties of draw *)

bothPresent(j) == present(j, "senkou1") /\ present(j, "senkou2")

bullishAt(j) == field(j, "senkou1")[1] >= field(j, "senkou2")[1]

upperPoint(j) == [x |-> xConvertToPixel(j), y |-> yConvertToPixel(field(j, "senkou1")[1])]

lowerPoint(j) == [x |-> xConvertToPixel(j), y |-> yConvertToPixel(field(j, "senkou2")[1])]

visibleIndices == visibleRange.from..(visibleRange.to - 1)

visiblePresent == { j \in visibleIndices : bothPresent(j) }

pathPoints(polygon) == { polygon.path[n] : n \in DOMAIN polygon.path }

\* the filled polygons that hold the point pair of index j
polygonsWith(j) ==
  { k \in DOMAIN filled :
      upperPoint(j) \in pathPoints(filled[k]) /\ lowerPoint(j) \in pathPoints(filled[k]) }

noPresentDropped == \A j \in visiblePresent : polygonsWith(j) # {}

noAbsentRendered ==
  \A k \in DOMAIN filled :
    \A pt \in pathPoints(filled[k]) :
      \E j \in visiblePresent : pt \in {upperPoint(j), lowerPoint(j)}

\* C7 as stated: after draw the indices whose point pair lies in some filled
\* polygon are exactly the visible indices with both spans present.
C7_CoverageExact ==
  pc = "drawDone" => noPresentDropped /\ noAbsentRendered

\* C7 as amended: that equality holds whenever at least two visible indices have
\* both spans present; with fewer than two nothing is filled, so a lone present
\* index is dropped.  No absent index ever contributes a point.
C7_CoverageFromTwo ==
  pc = "drawDone" =>
    /\ noAbsentRendered
    /\ Cardinality(visiblePresent) >= 2 => noPresentDropped
    /\ Cardinality(visiblePresent) < 2 => filled = <<>>

C7_Witness ==
  /\ pc = "drawDone"
  /\ Cardinality(visiblePresent) = 3
  /\ Cardinality(visibleIndices) > 3
  /\ Len(filled) = 2
  /\ \A j \in visiblePresent : polygonsWith(j) # {}

\* the scan is at a present index whose classification differs from the open flag
signChangeStep ==
  /\ pc = "draw"
  /\ di < visibleRange.to
  /\ bothPresent(di)
  /\ currentIsBullish # <<>>
  /\ currentIsBullish[1] # bullishAt(di)

\* C8: at a sign change the segment handed to drawCloudPolygon is the open one,
\* and the segment opened next is exactly that segment's last upper and last
\* lower point followed by the current index's pair.
C8_SharedBoundary ==
  [][signChangeStep =>
       /\ Len(points1) >= 1 /\ Len(points2) >= 1
       /\ calls' = Append(calls, [points1 |-> points1, points2 |-> points2,
                                  color |-> cloudColor(currentIsBullish[1])])
       /\ points1' = <<points1[Len(points1)], upperPoint(di)>>
       /\ points2' = <<points2[Len(points2)], lowerPoint(di)>>
       /\ currentIsBullish' = <<bullishAt(di)>>]_vars

C8_Witness ==
  /\ pc = "draw"
  /\ di > visibleRange.from
  /\ bothPresent(di - 1)
  /\ calls # <<>>
  /\ Len(calls[Len(calls)].points1) >= 2
  /\ points1 = <<calls[Len(calls)].points1[Len(calls[Len(calls)].points1)], upperPoint(di - 1)>>
  /\ points2 = <<calls[Len(calls)].points2[Len(calls[Len(calls)].points2)], lowerPoint(di - 1)>>
  /\ currentIsBullish # <<calls[Len(calls)].color = bullishColor>>

\* j and j + 1 are visible, both present, and classified differently
flipAt(j) ==
  /\ j \in visibleIndices /\ j + 1 \in visibleIndices
  /\ bothPresent(j) /\ bothPresent(j + 1)
  /\ bullishAt(j) # bullishAt(j + 1)

\* a filled polygon of j's colour whose edges end at j's pair
closedAt(j) ==
  \E k \in DOMAIN filled :
    LET path == filled[k].path
        h == Len(path) \div 2
    IN  /\ path[h] = upperPoint(j)
        /\ path[h + 1] = lowerPoint(j)
        /\ filled[k].color = cloudColor(bullishAt(j))

\* a filled polygon of j+1's colour whose edges start with j's pair, then j+1's
openedAt(j) ==
  \E k \in DOMAIN filled :
    LET path == filled[k].path
    IN  /\ Len(path) >= 4
        /\ path[1] = upperPoint(j) /\ path[2] = upperPoint(j + 1)
        /\ path[Len(path)] = lowerPoint(j) /\ path[Len(path) - 1] = lowerPoint(j + 1)
        /\ filled[k].color = cloudColor(bullishAt(j + 1))

\* C9 as stated: every flip between adjacent present indices yields exactly two
\* filled polygons, one of each colour, meeting in the pair of the first index.
C9_TwoSegmentsPerFlip ==
  pc = "drawDone" =>
    \A j \in visibleIndices :
      flipAt(j) =>
        /\ Cardinality(polygonsWith(j)) = 2
        /\ closedAt(j)
        /\ openedAt(j)

\* C9 as amended: that holds at every flip preceded by another visible present
\* index; when the flip is between the first two present indices of the range the
\* one-point segment is not filled and only the polygon opened at the flip is.
C9_TwoSegmentsAfterFirst ==
  pc = "drawDone" =>
    \A j \in visibleIndices :
      flipAt(j) =>
        /\ openedAt(j)
        /\ IF \E i \in visiblePresent : i < j
           THEN Cardinality(polygonsWith(j)) = 2 /\ closedAt(j)
           ELSE Cardinality(polygonsWith(j)) = 1 /\ ~closedAt(j)

C9_Witness ==
  /\ pc = "drawDone"
  /\ \E j \in visibleIndices :
       /\ flipAt(j)
       /\ bothPresent(j - 1) /\ j - 1 \in visibleIndices
       /\ bullishAt(j - 1) = bullishAt(j)
       /\ Cardinality(polygonsWith(j)) = 2
       /\ closedAt(j) /\ openedAt(j)
       /\ Len(filled) = 2

----------------------------------------------------------------------------
(* The flat market: 60 bars of high 10 and low 5 under the default          *)
(* parameters.  In quarters: high 40, low 20, and 7.5 is 30.               *)

\* calcParams: [9, 26, 52, 26]
defaultCalcParams == <<9, 26, 52, 26>>

\* closes between low and high, in three shapes: flat, rising saw, falling saw
flatClose(shape, i) == 20 + 4 * ((shape * i) % 6)

flatDataList(shape) ==
  [i \in 0..59 |-> [high |-> 40, low |-> 20, close |-> flatClose(shape, i)]]

InitFlat == InitWith({ flatDataList(shape) : shape \in {0, 1, 5} }, {defaultCalcParams})

SpecFlat == InitFlat /\ [][NextCalc]_vars

allAt(lo, hi, f, v) == \A j \in lo..hi : field(j, f) = v

\* C10 as stated: tenkan 7.5 on 8..59, kijun 7.5 on 25..59, spanB 7.5 on 51..59,
\* spanA 7.5 on 34..59, chikou[i] = close[i + 26] on 0..33.
C10_FlatAsStated ==
  pc = "calcDone" =>
    /\ allAt(8, 59, "tenkan", <<30>>)
    /\ allAt(25, 59, "kijun", <<30>>)
    /\ allAt(51, 59, "senkou2", <<30>>)
    /\ allAt(34, 59, "senkou1", <<30>>)
    /\ \A i \in 0..33 : field(i, "chikou") = <<dataList[i + 26].close>>

\* C10 as amended: the spans sit at the displaced output indices: spanB is 7.5 on
\* 77..85 and absent below 77, spanA is 7.5 on 51..85 and absent below 51; tenkan,
\* kijun and chikou are as stated.
C10_FlatDisplaced ==
  pc = "calcDone" =>
    /\ allAt(8, 59, "tenkan", <<30>>)
    /\ allAt(25, 59, "kijun", <<30>>)
    /\ allAt(77, 85, "senkou2", <<30>>)
    /\ allAt(0, 76, "senkou2", <<>>)
    /\ allAt(51, 85, "senkou1", <<30>>)
    /\ allAt(0, 50, "senkou1", <<>>)
    /\ \A i \in 0..33 : field(i, "chikou") = <<dataList[i + 26].close>>

C10_Witness ==
  /\ pc = "calcDone"
  /\ L = 60
  /\ calcParams = <<9, 26, 52, 26>>
  /\ length(result) = 86
  /\ field(85, "senkou2") = <<30>>
  /\ field(51, "senkou1") = <<30>>
  /\ field(0, "chikou") = <<dataList[26].close>>
  /\ dataList[26].close # dataList[27].close

----------------------------------------------------------------------------
(* Gaps in the scan *)

scanStep == pc = "draw" /\ di < visibleRange.to

\* C11: a scan step at an index where either span is absent, inside or outside
\* the array, leaves the edge lists, the flag and the canvas as they are; a scan
\* step fills a polygon only at a present index classified unlike the open flag;
\* a present index classified like the open flag, or met with no segment open,
\* is appended to the edge lists as they stand, gap or no gap before it.
C11_GapsChangeNothing ==
  [][scanStep =>
       /\ ~bothPresent(di) =>
            UNCHANGED <<points1, points2, currentIsBullish, calls, filled>>
       /\ (filled' # filled \/ calls' # calls) => signChangeStep
       /\ (bothPresent(di) /\ ~signChangeStep) =>
            /\ points1' = Append(points1, upperPoint(di))
            /\ points2' = Append(points2, lowerPoint(di))
            /\ currentIsBullish' = <<bullishAt(di)>>
            /\ filled' = filled]_vars

\* a same-sign present index has just been appended after a one-index gap, and
\* the point from before the gap is still the first point of the open segment
C11_Witness ==
  /\ pc = "draw"
  /\ di - 3 >= visibleRange.from
  /\ bothPresent(di - 3)
  /\ present(di - 2, "senkou1") /\ ~present(di - 2, "senkou2")
  /\ bothPresent(di - 1)
  /\ bullishAt(di - 3) = bullishAt(di - 1)
  /\ upperPoint(di - 3) # upperPoint(di - 1)
  /\ points1 = <<upperPoint(di - 3), upperPoint(di - 1)>>
  /\ points2 = <<lowerPoint(di - 3), lowerPoint(di - 1)>>
  /\ currentIsBullish = <<bullishAt(di - 1)>>
  /\ filled = <<>>
  /\ calls = <<>>

====
